---- MODULE Spec2Model ----
(***************************************************************************)
(* Model of the Rusty chat client (src/src/main.rs): the REPL of           *)
(* ChatApplication::run, the agent loop of process_message, the retry loop *)
(* of GroqApiClient::chat_completion_non_stream and the Brave search tool. *)
(* Every await of the code is a point where the environment answers; the   *)
(* code between two awaits is one action.                                  *)
(***************************************************************************)
EXTENDS Integers, Sequences, FiniteSets, TLC

VARIABLES
    pc,              \* where the thread of control stands (see PcValues)
    messages,        \* ConversationManager.messages
    stream_mode,     \* ConversationManager.stream_mode
    selected_model,  \* ModelManager.selected_model
    retries,         \* local `retries` of chat_completion_non_stream
    status,          \* status of the response whose body is being read (0: none)
    response_msg,    \* local `response_msg` of process_message (Option)
    ti,              \* position of the for loop over tool_calls (0: not in it)
    request,         \* the request in flight (Option): ChatRequest or search query
    out,             \* what the current user turn last reported on the terminal
    snapshot,        \* history: the Conversation when the current user turn began
    attempts,        \* history: requests sent by the current completion call
    waits,           \* history: backoff sleeps finished or started by the current call
    nUser,           \* history: user messages since the log was last empty and clean
    clean,           \* history: no failure and no tool request since then
    profile,         \* the profile of the environment explored in this run
    stream_hist,     \* history: /stream commands of the current pair (0..2) and
                     \* the stream mode before the first of them
    search_json,     \* history: the answer of the provider that the last search
                     \* step of the current user turn formatted (Option)
    limited_before   \* history: a completion call that has ended in this session
                     \* was answered with the rate-limit status at least once

vars == <<pc, messages, stream_mode, selected_model, retries, status, response_msg,
          ti, request, out, snapshot, attempts, waits, nUser, clean,
          profile, stream_hist, search_json, limited_before>>

-----------------------------------------------------------------------------
(* Bounds of the exploration *)

MaxLog == 6
MaxToolCalls == 2
MaxResults == 6

(* Program constants *)

MAX_RETRIES == 3
PAGE_SIZE == 5
TOO_MANY_REQUESTS == 429

-----------------------------------------------------------------------------
(* Option<T>: None is the empty sequence, Some(x) the one-element sequence *)

None == <<>>
Some(x) == <<x>>
IsSome(o) == Len(o) = 1
Unwrap(o) == o[1]

MODELS == <<"openai/gpt-oss-120b",
            "meta-llama/llama-4-maverick-17b-128e-instruct",
            "moonshotai/kimi-k2-instruct-0905">>

-----------------------------------------------------------------------------
(* Message and its constructors *)

Message_new(role, content) ==
    [role |-> role, content |-> Some(content), tool_calls |-> None,
     tool_call_id |-> None]

Message_user(content) == Message_new("user", content)

Message_assistant(content) == Message_new("assistant", content)

Message_system(content) == Message_new("system", content)

Message_tool(content, id) ==
    [role |-> "tool", content |-> Some(content), tool_calls |-> None,
     tool_call_id |-> Some(id)]

-----------------------------------------------------------------------------
(* str::trim, as read_user_input and the model prompts apply it *)

IsSpace(c) == c \in {" ", "\t", "\n", "\r"}

RECURSIVE trim_start(_)
trim_start(s) ==
    IF Len(s) > 0 /\ IsSpace(SubSeq(s, 1, 1))
    THEN trim_start(SubSeq(s, 2, Len(s)))
    ELSE s

RECURSIVE trim_end(_)
trim_end(s) ==
    IF Len(s) > 0 /\ IsSpace(SubSeq(s, Len(s), Len(s)))
    THEN trim_end(SubSeq(s, 1, Len(s) - 1))
    ELSE s

trim(s) == trim_end(trim_start(s))

-----------------------------------------------------------------------------
(* CommandHandler::parse: the Command of a non-empty trimmed line *)

(* a parser that answers a line it does not know with the help *)
CommandHandler_parse_strict(input) ==
    CASE input \in {"/quit", "/exit"} -> [cmd |-> "Quit", text |-> ""]
      [] input = "/stream" -> [cmd |-> "Stream", text |-> ""]
      [] input = "/clear" -> [cmd |-> "Clear", text |-> ""]
      [] input = "/model" -> [cmd |-> "Model", text |-> ""]
      [] OTHER -> [cmd |-> "Help", text |-> ""]

CommandHandler_parse(input) ==
    CASE input \in {"/quit", "/exit"} -> [cmd |-> "Quit", text |-> ""]
      [] input = "/stream" -> [cmd |-> "Stream", text |-> ""]
      [] input = "/clear" -> [cmd |-> "Clear", text |-> ""]
      [] input = "/model" -> [cmd |-> "Model", text |-> ""]
      [] input \in {"/help", "/", "?"} -> [cmd |-> "Help", text |-> ""]
      [] OTHER -> [cmd |-> "Message", text |-> input]

(* a choice that answers an unknown input with the last model of the list *)
parse_model_choice_last(choice) ==
    CASE choice \in {"1", ""} -> 1
      [] choice = "2" -> 2
      [] choice = "3" -> 3
      [] OTHER -> 3

(* ModelManager::parse_model_choice: the index into MODELS (1-based here) *)

parse_model_choice(choice) ==
    CASE choice \in {"1", ""} -> 1
      [] choice = "2" -> 2
      [] choice = "3" -> 3
      [] OTHER -> 1

-----------------------------------------------------------------------------
(* serde_json::from_str on the argument strings the model is let to send.  *)
(* A decoded object maps its keys to [kind, str]; str is the text of a     *)
(* string value and "" for any other kind.                                  *)

ARGS_QUERY == "{\"query\":\"weather today\"}"
ARGS_ID == "{\"id\":\"https://example.com\"}"
ARGS_URL == "{\"url\":\"example.com/page\"}"
ARGS_ID_URL == "{\"id\":7,\"url\":\"example.com/page\"}"
ARGS_QUERY_NUM == "{\"query\":5}"
ARGS_EMPTY_OBJ == "{}"
ARGS_TRUNCATED == "{\"query\":"
ARGS_BLANK == ""

JsonStr(s) == [kind |-> "string", str |-> s]
JsonNum == [kind |-> "number", str |-> ""]

from_str(s) ==
    CASE s = ARGS_QUERY ->
            [ok |-> TRUE, value |-> [k \in {"query"} |-> JsonStr("weather today")]]
      [] s = ARGS_ID ->
            [ok |-> TRUE, value |-> [k \in {"id"} |-> JsonStr("https://example.com")]]
      [] s = ARGS_URL ->
            [ok |-> TRUE, value |-> [k \in {"url"} |-> JsonStr("example.com/page")]]
      [] s = ARGS_ID_URL ->
            [ok |-> TRUE,
             value |-> [k \in {"id", "url"} |->
                          IF k = "id" THEN JsonNum ELSE JsonStr("example.com/page")]]
      [] s = ARGS_QUERY_NUM ->
            [ok |-> TRUE, value |-> [k \in {"query"} |-> JsonNum]]
      [] s = ARGS_EMPTY_OBJ ->
            [ok |-> TRUE, value |-> [k \in {} |-> JsonNum]]
      [] OTHER -> [ok |-> FALSE, value |-> [k \in {} |-> JsonNum]]

(* Value::get(key): Option of the member *)
json_get(obj, key) == IF key \in DOMAIN obj THEN Some(obj[key]) ELSE None

(* Option<&Value>::and_then(as_str).unwrap_or("") *)
as_str_or_empty(o) ==
    IF IsSome(o) /\ Unwrap(o).kind = "string" THEN Unwrap(o).str ELSE ""

(* line 1190: args["query"].as_str().unwrap_or("") *)
brave_query(args) == as_str_or_empty(json_get(args, "query"))

(* a tool that looks for its string where brave_search does *)
open_url_from_query(args) == brave_query(args)

(* lines 1221-1225: args.get("id").or_else(|| args.get("url"))... *)
open_url(args) ==
    as_str_or_empty(IF IsSome(json_get(args, "id"))
                    THEN json_get(args, "id")
                    ELSE json_get(args, "url"))

-----------------------------------------------------------------------------
(* BraveSearchClient::format_results.  The decoded body is abstracted to    *)
(* results: None when web.results is absent or no array, else the array of  *)
(* items, each field an Option<String> (None: absent or not a string).      *)

unwrap_or(o, d) == IF IsSome(o) THEN Unwrap(o) ELSE d

format_entry(i, result) ==
    ToString(i) \o ". **" \o unwrap_or(result.title, "No Title") \o "**\n"
    \o "   - Snippet: " \o unwrap_or(result.description, "") \o "\n"
    \o "   - URL: " \o unwrap_or(result.url, "") \o "\n\n"

(* a formatter that renders every result of the list, however many *)
RECURSIVE format_entries_uncapped(_, _)
format_entries_uncapped(web, i) ==
    IF i > Len(web)
    THEN ""
    ELSE format_entry(i, web[i]) \o format_entries_uncapped(web, i + 1)

RECURSIVE format_entries(_, _)
format_entries(web, i) ==
    IF i > Len(web) \/ i > PAGE_SIZE
    THEN ""
    ELSE format_entry(i, web[i]) \o format_entries(web, i + 1)

HEADING == "### Brave Search Results\n\n"

(* a formatter that renders an empty result list as nothing at all *)
format_results_or_nothing(json) ==
    IF IsSome(json.results)
    THEN IF Len(Unwrap(json.results)) = 0
         THEN ""
         ELSE HEADING \o format_entries(Unwrap(json.results), 1)
    ELSE HEADING \o "Failed to parse search results.\n"

format_results(json) ==
    IF IsSome(json.results)
    THEN IF Len(Unwrap(json.results)) = 0
         THEN HEADING \o "No results found.\n"
         ELSE HEADING \o format_entries(Unwrap(json.results), 1)
    ELSE HEADING \o "Failed to parse search results.\n"

SEARCH_FAILED == "Error: Search failed. Please answer without search."
OPEN_FAILED == "Error: Failed to read page content. Please try searching instead."

-----------------------------------------------------------------------------
(* ConversationManager *)

add_user_message(msgs, content) == Append(msgs, Message_user(content))

(* a rollback that is forgotten *)
keep_messages(msgs) == msgs

remove_last_message(msgs) ==
    IF Len(msgs) = 0 THEN msgs ELSE SubSeq(msgs, 1, Len(msgs) - 1)

(* a clear that keeps the first Turn of the log *)
clear_but_first(msgs) == IF Len(msgs) = 0 THEN msgs ELSE SubSeq(msgs, 1, 1)

clear(msgs) == <<>>

(* a command that switches streaming on, whatever it was *)
set_stream_mode(mode) == TRUE

toggle_stream_mode(mode) == ~mode

-----------------------------------------------------------------------------
(* The requests the client sends *)

(* line 311; the grave accents the text puts around the three tool names   *)
(* are left out                                                            *)
SYSTEM_PROMPT == "You are a helpful AI assistant with access to real-time information via the brave_search tool. You can use it to find up-to-date information. Do not attempt to use any tools that are not listed here. Specifically, do NOT use a tool named open or read_file; they do not exist."

get_brave_search_tool ==
    [type |-> "function", function |-> [name |-> "brave_search", required |-> "query"]]

get_open_tool ==
    [type |-> "function", function |-> [name |-> "open", required |-> "id"]]

(* a request that sends the stored Turns alone *)
ChatRequest_stored_only(model, msgs, tools) ==
    [kind |-> "chat", model |-> model, messages |-> msgs,
     stream |-> FALSE, tools |-> tools]

(* a request that asks for a streamed answer *)
ChatRequest_streamed(model, msgs, tools) ==
    [kind |-> "chat", model |-> model,
     messages |-> <<Message_system(SYSTEM_PROMPT)>> \o msgs,
     stream |-> TRUE, tools |-> tools]

(* lines 310-319: the ChatRequest built by chat_completion_non_stream *)
ChatRequest(model, msgs, tools) ==
    [kind |-> "chat", model |-> model,
     messages |-> <<Message_system(SYSTEM_PROMPT)>> \o msgs,
     stream |-> FALSE, tools |-> tools]

(* lines 230-238: the GET of BraveSearchClient::search *)
SearchRequest(query) == [kind |-> "search", q |-> query, count |-> "5"]

-----------------------------------------------------------------------------
(* What the environment may send: terminal lines, responses of the         *)
(* completion endpoint, responses of the search provider.                  *)

(* The exploration is split into three profiles of the environment, fixed *)
(* for a run, so that the varieties multiply within a profile only:         *)
(*   "tools"     every list of tool calls, a search that succeeds or fails, *)
(*               transport failures and undecodable bodies; no rate         *)
(*               limiting, no /stream or /model                             *)
(*   "transport" every status, the retry loop and its two ends; replies     *)
(*               with text, without text, without a choice, or with one     *)
(*               search request; every shape of search result               *)
(*   "commands"  every line the user can type at both prompts; replies with *)
(*               text or with one open request                              *)
Profiles == {"tools", "transport", "commands"}

MessageLines == {"hello", " hello\n"}

UserLines(p) ==
    CASE p = "tools" -> MessageLines \cup {"", "/clear", "/quit"}
      [] p = "transport" -> MessageLines \cup {"  ", "/exit"}
      [] OTHER -> MessageLines \cup {"", "  ", "/quit", "/exit", "/stream", "/clear",
                                     "/model", "/help", "/", "?"}

ModelChoiceLines(p) ==
    IF p = "commands" THEN {"", "1", "2", " 3\n", "7", "/exit", "/quit"}
    ELSE {"", "/quit"}

Statuses(p) ==
    CASE p = "tools" -> {200}
      [] p = "transport" -> {200, TOO_MANY_REQUESTS, 500}
      [] OTHER -> {200}

(* correlation ids: the i-th tool call of a reply has the i-th id *)
Ids == <<"call_1", "call_2", "call_3", "call_4">>

ToolShapes(p) ==
    CASE p = "tools" ->
            {<<"brave_search", ARGS_QUERY>>, <<"brave_search", ARGS_ID>>,
             <<"brave_search", ARGS_TRUNCATED>>, <<"open", ARGS_ID>>,
             <<"read_file", ARGS_QUERY>>}
      [] p = "transport" -> {<<"brave_search", ARGS_QUERY>>}
      [] OTHER -> {<<"open", ARGS_ID>>, <<"open", ARGS_URL>>}

ToolCall(id, name, arguments) ==
    [id |-> id, type |-> "function",
     function |-> [name |-> name, arguments |-> arguments]]

ToolCallLists(p) ==
    UNION {{[i \in 1..n |-> ToolCall(Ids[i], shapes[i][1], shapes[i][2])] :
               shapes \in [1..n -> ToolShapes(p)]} :
           n \in IF p = "tools" THEN 0..MaxToolCalls ELSE {1}}

ReplyContents(p) == IF p = "transport" THEN {None, Some(""), Some("Hi.")} ELSE {Some("Hi.")}

(* the message of a choice: the endpoint answers in the assistant role,    *)
(* with text, without text, or with a list of tool calls and no text       *)
ReplyMessages(p) ==
    {[role |-> "assistant", content |-> c, tool_calls |-> None, tool_call_id |-> None] :
        c \in ReplyContents(p)}
    \cup {[role |-> "assistant", content |-> None, tool_calls |-> Some(l),
           tool_call_id |-> None] : l \in ToolCallLists(p)}

(* a response body: text that does not decode into ChatResponse (not JSON, *)
(* or JSON without choices, as an error object), or a ChatResponse         *)
Bodies(p) ==
    (CASE p = "tools" -> {[decodes |-> FALSE, choices |-> <<>>]}
       [] p = "transport" ->
             {[decodes |-> FALSE, choices |-> <<>>], [decodes |-> TRUE, choices |-> <<>>]}
       [] OTHER -> {})
    \cup {[decodes |-> TRUE, choices |-> <<[message |-> m]>>] : m \in ReplyMessages(p)}

SearchItem == [title |-> Some("Weather"), description |-> None, url |-> Some("https://w.example")]

SearchItemFull ==
    [title |-> Some("Rust"), description |-> Some("A language."),
     url |-> Some("https://r.example")]

(* every list of up to MaxResults items, each of one of two kinds *)
ResultLists ==
    UNION {[1..n -> {SearchItem, SearchItemFull}] : n \in 0..MaxResults}

(* the profile "results" is the one of ResultsSpec: every list of results *)
SearchJsons(p) ==
    CASE p = "transport" ->
            {[results |-> None], [results |-> Some(<<>>)],
             [results |-> Some(<<SearchItem>>)]}
      [] p = "results" -> {[results |-> Some(l)] : l \in ResultLists}
      [] OTHER -> {[results |-> Some(<<SearchItem>>)]}

-----------------------------------------------------------------------------
(* What process_message and the client report on the terminal; the text   *)
(* of the prompts and of the commands is not modelled (OUT_NONE)            *)

OUT_NONE == ""
OUT_THINKING == "Thinking"
OUT_RETRY == "Rate limit hit, retrying in 2 seconds..."
OUT_RATE_PANIC == "Groq API Rate Limit Exceeded"
OUT_DECODE_PANIC == "Groq API Error"
OUT_ERROR == "Error: "
OUT_ANSWER == "answer"
OUT_NO_ANSWER == "no answer text"
OUT_SEARCHING == "Searching Brave for"
OUT_CHECKING == "Checking content from"
OUT_REASONING == "Reasoning with search results"
OUT_ANALYZING == "Analyzing page content"
OUT_SEARCH_FAILED == "Error: Search failed"
OUT_READ_FAILED == "Error: Failed to read content"
OUT_ARGS_ERROR == "Error: invalid tool arguments"

PcValues ==
    {"SelectModel", "AwaitingUserInput", "ChangeModel", "CallingModel",
     "AwaitingResponse", "Backoff", "ReadingBody", "ExecutingTools",
     "AwaitingSearch", "Done", "Exited", "Panicked", "Failed"}

Terminated == pc \in {"Exited", "Panicked", "Failed"}

-----------------------------------------------------------------------------
(* ChatApplication::new, then run up to the first prompt of initialize *)

Init ==
    /\ pc = "SelectModel"
    /\ messages = <<>>
    /\ stream_mode = FALSE
    /\ selected_model = 1
    /\ retries = 0
    /\ status = 0
    /\ response_msg = None
    /\ ti = 0
    /\ request = None
    /\ out = OUT_NONE
    /\ snapshot = <<>>
    /\ attempts = 0
    /\ waits = 0
    /\ nUser = 0
    /\ clean = TRUE
    /\ profile \in Profiles
    /\ stream_hist = [n |-> 0, before |-> FALSE]
    /\ search_json = None
    /\ limited_before = FALSE

CallLocals == <<retries, status, attempts, waits>>
LoopLocals == <<response_msg, ti>>
History == <<snapshot, nUser, clean, profile, stream_hist, search_json,
             limited_before>>

(* The process ends: by Ok(()) from run ("Exited"), by a panic ("Panicked") *)
(* or by an Err that main returns ("Failed").  Its memory is released; pc,  *)
(* the last report and the counts of the call it ended in are what remains. *)
ProcessEnds(how, report) ==
    /\ pc' = how
    /\ out' = report
    /\ messages' = <<>>
    /\ stream_mode' = FALSE
    /\ selected_model' = 1
    /\ retries' = 0
    /\ status' = 0
    /\ response_msg' = None
    /\ ti' = 0
    /\ request' = None
    /\ snapshot' = <<>>
    /\ nUser' = 0
    /\ clean' = TRUE
    /\ stream_hist' = [n |-> 0, before |-> FALSE]
    /\ search_json' = None
    /\ limited_before' = FALSE
    /\ UNCHANGED <<attempts, waits, profile>>

-----------------------------------------------------------------------------
(* ModelManager::select_model_interactive, called by initialize *)

SelectModelInteractiveOn(line) ==
    /\ pc = "SelectModel"
    /\ LET input == trim(line) IN
       IF input \in {"/exit", "/quit"}
       THEN ProcessEnds("Exited", OUT_NONE)
       ELSE /\ selected_model' = parse_model_choice(input)
            /\ pc' = "AwaitingUserInput"
            /\ out' = OUT_NONE
            /\ UNCHANGED <<messages, stream_mode, request, CallLocals, LoopLocals,
                           History>>

SelectModelInteractive ==
    \E line \in ModelChoiceLines(profile) : SelectModelInteractiveOn(line)

(* ModelManager::change_model_interactive, called by Command::Model *)

ChangeModelInteractiveOn(line) ==
    /\ pc = "ChangeModel"
    /\ LET input == trim(line) IN
       IF input \in {"/exit", "/quit"}
       THEN ProcessEnds("Exited", OUT_NONE)
       ELSE /\ selected_model' = parse_model_choice(input)
            /\ pc' = "AwaitingUserInput"
            /\ out' = OUT_NONE
            /\ UNCHANGED <<messages, stream_mode, request, CallLocals, LoopLocals,
                           History>>

ChangeModelInteractive ==
    \E line \in ModelChoiceLines(profile) : ChangeModelInteractiveOn(line)

-----------------------------------------------------------------------------
(* One iteration of the loop of ChatApplication::run: read_user_input,     *)
(* the empty-line test, CommandHandler::parse and handle_command.          *)

(* a loop that hands every line, the empty one too, to CommandHandler::parse *)
LineCommand_unfiltered(line) == CommandHandler_parse(trim(line))

(* the Command of a raw line; "Empty" for a line run skips *)
LineCommand(line) ==
    IF trim(line) = ""
    THEN [cmd |-> "Empty", text |-> ""]
    ELSE CommandHandler_parse(trim(line))

EmptyLineOn(line) ==
    /\ pc = "AwaitingUserInput"
    /\ LineCommand(line).cmd = "Empty"
    /\ out' = OUT_NONE
    /\ UNCHANGED snapshot
    /\ UNCHANGED <<pc, messages, stream_mode, selected_model, request, CallLocals,
                   LoopLocals, nUser, clean, profile, stream_hist,
                   search_json, limited_before>>

EmptyLine == \E line \in UserLines(profile) : EmptyLineOn(line)

CmdQuitOn(line) ==
    /\ pc = "AwaitingUserInput"
    /\ LineCommand(line).cmd = "Quit"
    /\ ProcessEnds("Exited", OUT_NONE)

CmdQuit == \E line \in UserLines(profile) : CmdQuitOn(line)

(* a /stream command that also empties the Conversation *)
CmdStreamOn_clearing(line) ==
    /\ pc = "AwaitingUserInput"
    /\ LineCommand(line).cmd = "Stream"
    /\ stream_mode' = toggle_stream_mode(stream_mode)
    /\ messages' = clear(messages)
    /\ out' = OUT_NONE
    /\ stream_hist' = IF stream_hist.n = 1
                      THEN [stream_hist EXCEPT !.n = 2]
                      ELSE [n |-> 1, before |-> stream_mode]
    /\ UNCHANGED snapshot
    /\ UNCHANGED <<pc, selected_model, request, CallLocals, LoopLocals,
                   nUser, clean, profile, search_json, limited_before>>

CmdStreamOn(line) ==
    /\ pc = "AwaitingUserInput"
    /\ LineCommand(line).cmd = "Stream"
    /\ stream_mode' = toggle_stream_mode(stream_mode)
    /\ out' = OUT_NONE
    /\ stream_hist' = IF stream_hist.n = 1
                      THEN [stream_hist EXCEPT !.n = 2]
                      ELSE [n |-> 1, before |-> stream_mode]
    /\ UNCHANGED snapshot
    /\ UNCHANGED <<pc, messages, selected_model, request, CallLocals, LoopLocals,
                   nUser, clean, profile, search_json, limited_before>>

CmdStream == \E line \in UserLines(profile) : CmdStreamOn(line)

CmdClearOn(line) ==
    /\ pc = "AwaitingUserInput"
    /\ LineCommand(line).cmd = "Clear"
    /\ messages' = clear(messages)
    /\ out' = OUT_NONE
    /\ UNCHANGED snapshot
    /\ nUser' = 0
    /\ clean' = TRUE
    /\ UNCHANGED <<pc, stream_mode, selected_model, request, CallLocals, LoopLocals,
                   profile, stream_hist, search_json, limited_before>>

CmdClear == \E line \in UserLines(profile) : CmdClearOn(line)

CmdModelOn(line) ==
    /\ pc = "AwaitingUserInput"
    /\ LineCommand(line).cmd = "Model"
    /\ pc' = "ChangeModel"
    /\ out' = OUT_NONE
    /\ UNCHANGED snapshot
    /\ UNCHANGED <<messages, stream_mode, selected_model, request, CallLocals,
                   LoopLocals, nUser, clean, profile, stream_hist,
                   search_json, limited_before>>

CmdModel == \E line \in UserLines(profile) : CmdModelOn(line)

CmdHelpOn(line) ==
    /\ pc = "AwaitingUserInput"
    /\ LineCommand(line).cmd = "Help"
    /\ out' = OUT_NONE
    /\ UNCHANGED snapshot
    /\ UNCHANGED <<pc, messages, stream_mode, selected_model, request, CallLocals,
                   LoopLocals, nUser, clean, profile, stream_hist,
                   search_json, limited_before>>

CmdHelp == \E line \in UserLines(profile) : CmdHelpOn(line)

(* Command::Message: process_message up to the top of its loop *)
CmdMessageOn(line) ==
    /\ pc = "AwaitingUserInput"
    /\ Len(messages) + 2 <= MaxLog
    /\ LineCommand(line).cmd = "Message"
    /\ messages' = add_user_message(messages, LineCommand(line).text)
    /\ pc' = "CallingModel"
    /\ out' = OUT_THINKING
    /\ snapshot' = messages
    /\ nUser' = IF clean THEN nUser + 1 ELSE 0
    /\ UNCHANGED <<stream_mode, selected_model, request, CallLocals, LoopLocals, clean,
                   profile, stream_hist, search_json, limited_before>>

CmdMessage == \E line \in UserLines(profile) : CmdMessageOn(line)

(* lines 1055-1069: what one iteration of the loop of run does on a line *)
HandleLine(line) ==
    \/ EmptyLineOn(line)
    \/ CmdQuitOn(line)
    \/ CmdStreamOn(line)
    \/ CmdClearOn(line)
    \/ CmdModelOn(line)
    \/ CmdHelpOn(line)
    \/ CmdMessageOn(line)

-----------------------------------------------------------------------------
(* process_message: the agent loop *)

(* the tool_calls of the reply being worked on, and the current one *)
CurrentCalls == Unwrap(Unwrap(response_msg).tool_calls)
(* a loop that works through the tool calls from the last to the first *)
CurrentCall_from_last == CurrentCalls[Len(CurrentCalls) + 1 - ti]

CurrentCall == CurrentCalls[ti]

(* lines 1167-1177 and 310-330: top of the loop; chat_completion builds    *)
(* the request, sets retries to 0 and sends it                              *)
CallModel ==
    /\ pc = "CallingModel"
    /\ request' = Some(ChatRequest(MODELS[selected_model], messages,
                                   Some(<<get_brave_search_tool, get_open_tool>>)))
    /\ retries' = 0
    /\ attempts' = 1
    /\ waits' = 0
    /\ pc' = "AwaitingResponse"
    /\ UNCHANGED <<messages, stream_mode, selected_model, status, LoopLocals, out,
                   History>>

(* lines 1263-1267: the Err arm of process_message *)
OnTransportError ==
    /\ messages' = remove_last_message(messages)
    /\ pc' = "Done"
    /\ out' = OUT_ERROR
    /\ request' = None
    /\ retries' = 0
    /\ status' = 0
    /\ attempts' = 0
    /\ waits' = 0
    /\ nUser' = 0
    /\ clean' = FALSE
    /\ limited_before' = (limited_before \/ waits > 0)
    /\ UNCHANGED <<stream_mode, selected_model, LoopLocals, snapshot, profile,
                   stream_hist, search_json>>

(* line 330: send().await? fails (DNS, TLS, connect, timeout) *)
SendFails ==
    /\ pc = "AwaitingResponse"
    /\ OnTransportError

(* a call that has no retry to spend *)
RetriesExhaustedAtOnce(r) == r >= 0

(* a retry budget that is one short *)
RetriesExhaustedEarly(r) == r >= MAX_RETRIES - 1

(* line 333 *)
RetriesExhausted(r) == r >= MAX_RETRIES

(* lines 330-345: the head of the response arrives; a rate-limit status    *)
(* with retries left starts the backoff sleep                               *)
ResponseArrives ==
    /\ pc = "AwaitingResponse"
    /\ \E st \in Statuses(profile) :
         IF st = TOO_MANY_REQUESTS /\ ~RetriesExhausted(retries)
         THEN /\ retries' = retries + 1
              /\ waits' = waits + 1
              /\ out' = OUT_RETRY
              /\ pc' = "Backoff"
              /\ request' = None
              /\ UNCHANGED status
         ELSE /\ status' = st
              /\ pc' = "ReadingBody"
              /\ UNCHANGED <<retries, waits, out, request>>
    /\ UNCHANGED <<messages, stream_mode, selected_model, attempts,
                   LoopLocals, History>>

(* lines 343-344 and 323-330: the sleep ends, the same request is sent again *)
BackoffEnds ==
    /\ pc = "Backoff"
    /\ request' = Some(ChatRequest(MODELS[selected_model], messages,
                                   Some(<<get_brave_search_tool, get_open_tool>>)))
    /\ attempts' = attempts + 1
    /\ pc' = "AwaitingResponse"
    /\ UNCHANGED <<messages, stream_mode, selected_model, retries, status, waits,
                   LoopLocals, out, History>>

(* lines 334 and 347: response.text().await? fails *)
BodyFails ==
    /\ pc = "ReadingBody"
    /\ OnTransportError

(* lines 356-360: the message of the first choice, or an empty assistant one *)
first_message(choices) ==
    IF Len(choices) > 0 THEN choices[1].message ELSE Message_assistant("")

(* lines 1180-1261: the Ok arm of process_message, up to the next await *)
OnReply(msg) ==
    /\ messages' = Append(messages, msg)
    /\ IF IsSome(msg.tool_calls)
       THEN /\ IF Len(Unwrap(msg.tool_calls)) > 0
               THEN /\ pc' = "ExecutingTools"
                    /\ ti' = 1
                    /\ response_msg' = Some(msg)
                    /\ clean' = FALSE
                    /\ nUser' = 0
               ELSE /\ pc' = "CallingModel"
                    /\ UNCHANGED <<ti, response_msg, clean, nUser>>
            /\ UNCHANGED out
       ELSE /\ pc' = "Done"
            /\ out' = IF IsSome(msg.content) THEN OUT_ANSWER ELSE OUT_NO_ANSWER
            /\ UNCHANGED <<ti, response_msg, clean, nUser>>

(* lines 334-336 and 347-361: the body is read; then the rate-limit panic, *)
(* the decode panic, or the reply handed to process_message                 *)
BodyArrives ==
    /\ pc = "ReadingBody"
    /\ \E body \in Bodies(profile) :
         IF status = TOO_MANY_REQUESTS
         THEN ProcessEnds("Panicked", OUT_RATE_PANIC)
         ELSE IF ~body.decodes
         THEN ProcessEnds("Panicked", OUT_DECODE_PANIC)
         ELSE /\ LET msg == first_message(body.choices) IN
                   /\ IsSome(msg.tool_calls) =>
                          Len(messages) + Len(Unwrap(msg.tool_calls)) + 2 <= MaxLog
                   /\ OnReply(msg)
              /\ request' = None
              /\ retries' = 0
              /\ status' = 0
              /\ attempts' = 0
              /\ waits' = 0
              /\ limited_before' = (limited_before \/ waits > 0)
              /\ UNCHANGED <<stream_mode, selected_model, snapshot, profile,
                             stream_hist, search_json>>

-----------------------------------------------------------------------------
(* lines 1186-1254: the for loop over tool_calls *)

(* the end of one iteration: the next tool call, or `continue` at line 1254 *)
NextToolCall ==
    IF ti < Len(CurrentCalls)
    THEN /\ pc' = "ExecutingTools"
         /\ ti' = ti + 1
         /\ UNCHANGED response_msg
    ELSE /\ pc' = "CallingModel"
         /\ ti' = 0
         /\ response_msg' = None

(* lines 1187-1197 and 1218-1233: decode the arguments, start the search;  *)
(* a name that is neither brave_search nor open is passed over              *)
ExecuteTool ==
    /\ pc = "ExecutingTools"
    /\ LET name == CurrentCall.function.name
           args == from_str(CurrentCall.function.arguments)
       IN  IF name \in {"brave_search", "open"}
           THEN IF ~args.ok
                THEN ProcessEnds("Failed", OUT_ARGS_ERROR)
                ELSE /\ request' = Some(SearchRequest(
                                      IF name = "brave_search"
                                      THEN brave_query(args.value)
                                      ELSE open_url(args.value)))
                     /\ out' = IF name = "brave_search" THEN OUT_SEARCHING
                               ELSE OUT_CHECKING
                     /\ pc' = "AwaitingSearch"
                     /\ UNCHANGED <<messages, stream_mode, selected_model, CallLocals,
                                    LoopLocals, History>>
           ELSE /\ NextToolCall
                /\ UNCHANGED <<messages, stream_mode, selected_model, request, out,
                               CallLocals, History>>

(* a tool Turn built with its two arguments in the wrong order *)
tool_result_turn_swapped(search_results, id) == Message_tool(id, search_results)

(* lines 1203-1205 and 1236-1238 *)
tool_result_turn(search_results, id) == Message_tool(search_results, id)

(* a failure that leaves the text of the tool Turn empty *)
tool_failure_turn_blank(name, id) == Message_tool("", id)

(* lines 1212-1215 and 1245-1248 *)
tool_failure_turn(name, id) ==
    Message_tool(IF name = "brave_search" THEN SEARCH_FAILED ELSE OPEN_FAILED, id)

(* a search whose answer is used while the request is left outstanding *)
SearchSucceeds_request_kept ==
    /\ pc = "AwaitingSearch"
    /\ \E json \in SearchJsons(profile) :
         /\ messages' = Append(messages,
                               tool_result_turn(format_results(json), CurrentCall.id))
         /\ search_json' = Some(json)
    /\ out' = IF CurrentCall.function.name = "brave_search" THEN OUT_REASONING
              ELSE OUT_ANALYZING
    /\ NextToolCall
    /\ UNCHANGED <<stream_mode, selected_model, request, CallLocals, snapshot, nUser,
                   clean, profile, stream_hist, limited_before>>

(* lines 229-242 with 1198-1206 and 1234-1239: the provider answers with a *)
(* JSON body, which is formatted into the tool Turn                         *)
SearchSucceeds ==
    /\ pc = "AwaitingSearch"
    /\ \E json \in SearchJsons(profile) :
         /\ messages' = Append(messages,
                               tool_result_turn(format_results(json), CurrentCall.id))
         /\ search_json' = Some(json)
    /\ out' = IF CurrentCall.function.name = "brave_search" THEN OUT_REASONING
              ELSE OUT_ANALYZING
    /\ request' = None
    /\ NextToolCall
    /\ UNCHANGED <<stream_mode, selected_model, CallLocals, snapshot, nUser, clean,
                   profile, stream_hist, limited_before>>

(* lines 238, 240 with 1207-1216 and 1240-1249: the request or the decoding *)
(* of its body fails                                                         *)
SearchFails ==
    /\ pc = "AwaitingSearch"
    /\ messages' = Append(messages,
                          tool_failure_turn(CurrentCall.function.name, CurrentCall.id))
    /\ out' = IF CurrentCall.function.name = "brave_search" THEN OUT_SEARCH_FAILED
              ELSE OUT_READ_FAILED
    /\ search_json' = None
    /\ request' = None
    /\ NextToolCall
    /\ UNCHANGED <<stream_mode, selected_model, CallLocals, snapshot, nUser, clean,
                   profile, stream_hist, limited_before>>

(* lines 1271, 1145-1146 and 1066-1069: process_message returns Ok(()),    *)
(* handle_command Ok(true), and run goes round its loop                     *)
Return ==
    /\ pc = "Done"
    /\ pc' = "AwaitingUserInput"
    /\ out' = OUT_NONE
    /\ snapshot' = <<>>
    /\ search_json' = None
    /\ UNCHANGED <<messages, stream_mode, selected_model, request, CallLocals,
                   LoopLocals, nUser, clean, profile, stream_hist,
                   limited_before>>

-----------------------------------------------------------------------------

Next ==
    \/ SelectModelInteractive
    \/ ChangeModelInteractive
    \/ EmptyLine
    \/ CmdQuit
    \/ CmdStream
    \/ CmdClear
    \/ CmdModel
    \/ CmdHelp
    \/ CmdMessage
    \/ CallModel
    \/ SendFails
    \/ ResponseArrives
    \/ BackoffEnds
    \/ BodyFails
    \/ BodyArrives
    \/ ExecuteTool
    \/ SearchSucceeds
    \/ SearchFails
    \/ Return

Spec == Init /\ [][Next]_vars

-----------------------------------------------------------------------------
(* BraveSearchClient::search on its own: the session stands where the      *)
(* reply to "hello" has asked for one search, the request is sent, and the  *)
(* provider answers with any list of results, or the request fails.         *)

SearchReply ==
    [role |-> "assistant", content |-> None,
     tool_calls |-> Some(<<ToolCall(Ids[1], "brave_search", ARGS_QUERY)>>),
     tool_call_id |-> None]

InitResults ==
    /\ pc = "AwaitingSearch"
    /\ messages = <<Message_user("hello"), SearchReply>>
    /\ stream_mode = FALSE
    /\ selected_model = 1
    /\ retries = 0
    /\ status = 0
    /\ response_msg = Some(SearchReply)
    /\ ti = 1
    /\ request = Some(SearchRequest(brave_query(from_str(ARGS_QUERY).value)))
    /\ out = OUT_SEARCHING
    /\ snapshot = <<>>
    /\ attempts = 0
    /\ waits = 0
    /\ nUser = 0
    /\ clean = FALSE
    /\ profile = "results"
    /\ stream_hist = [n |-> 0, before |-> FALSE]
    /\ search_json = None
    /\ limited_before = FALSE

NextResults ==
    \/ SearchSucceeds
    \/ SearchFails

ResultsSpec == InitResults /\ [][NextResults]_vars

(* The steps of process_message and of the calls it awaits.  The task is   *)
(* never left waiting once an await is ready, and the requests are taken    *)
(* to be answered: a step of the loop that can be taken is taken.           *)
LoopStep ==
    \/ CallModel
    \/ SendFails
    \/ ResponseArrives
    \/ BackoffEnds
    \/ BodyFails
    \/ BodyArrives
    \/ ExecuteTool
    \/ SearchSucceeds
    \/ SearchFails
    \/ Return

(* a call that ends the loop: an error, or a reply that requests no tool *)
FinalOutcome ==
    \/ SendFails
    \/ BodyFails
    \/ BodyArrives /\ pc' \in {"Done", "Panicked"}

FairSpec == Spec /\ WF_vars(LoopStep) /\ SF_vars(FinalOutcome)

TypeOK ==
    /\ pc \in PcValues
    /\ Len(messages) <= MaxLog
    /\ stream_mode \in BOOLEAN
    /\ selected_model \in 1..Len(MODELS)
    /\ retries \in 0..MAX_RETRIES

-----------------------------------------------------------------------------
(* Vocabulary of the properties *)

Last(seq) == seq[Len(seq)]

HasToolRequests(m) == IsSome(m.tool_calls) /\ Len(Unwrap(m.tool_calls)) > 0

IsToolTurn(m) == m.role = "tool"

(* a model call is about to be issued or is under way, or the turn is over *)
BetweenToolRounds ==
    pc \in {"CallingModel", "AwaitingResponse", "Backoff", "ReadingBody", "Done",
            "AwaitingUserInput"}

(* the Turn at p, which requests tools, is followed by its tool Turns: one  *)
(* per ToolRequest, in order, with the ids of the requests, and no more     *)
AnsweredAt(p) ==
    LET calls == Unwrap(messages[p].tool_calls) IN
    /\ p + Len(calls) <= Len(messages)
    /\ \A j \in 1..Len(calls) :
          /\ IsToolTurn(messages[p + j])
          /\ messages[p + j].tool_call_id = Some(calls[j].id)
    /\ p + Len(calls) < Len(messages) => ~IsToolTurn(messages[p + Len(calls) + 1])

(* C1: whenever a model call is issued or the turn is over, every assistant *)
(* Turn that requested tools is directly followed by exactly one tool Turn  *)
(* per ToolRequest, with the matching ids.                                  *)
C1_ToolTurnsFollowRequests ==
    BetweenToolRounds =>
        \A p \in 1..Len(messages) :
            (messages[p].role = "assistant" /\ HasToolRequests(messages[p]))
                => AnsweredAt(p)

(* C2: a model call that fails while the log is the log of the start of the *)
(* turn plus the user Turn leaves the log as it was at the start.           *)
C2_RollbackRestoresLog ==
    [][(/\ pc \in {"AwaitingResponse", "ReadingBody"}
        /\ Len(messages) = Len(snapshot) + 1
        /\ Last(messages).role = "user"
        /\ pc' = "Done"
        /\ out' = OUT_ERROR)
       => messages' = snapshot]_vars

C2_Witness ==
    /\ pc = "Done"
    /\ out = OUT_ERROR
    /\ Len(snapshot) >= 2
    /\ messages = snapshot

(* C3: after N user messages answered without failure and without tool     *)
(* requests the log holds 2N Turns, user and assistant alternating.         *)
C3_TwoTurnsPerUserMessage ==
    (pc \in {"Done", "AwaitingUserInput"} /\ clean) =>
        /\ Len(messages) = 2 * nUser
        /\ \A i \in 1..Len(messages) :
              messages[i].role = IF i % 2 = 1 THEN "user" ELSE "assistant"

(* C4: a call sends at most 4 requests, a backoff wait before each retry,   *)
(* and a rate-limit response to the 4th request ends the process: it is     *)
(* neither retried nor returned as an error.                                *)
C4_FourthRateLimitIsFatal ==
    /\ [](pc \in {"AwaitingResponse", "ReadingBody"} =>
             (attempts <= MAX_RETRIES + 1 /\ waits = attempts - 1))
    /\ [][(pc = "ReadingBody" /\ status = TOO_MANY_REQUESTS) =>
             (attempts = MAX_RETRIES + 1 /\ pc' = "Panicked")]_vars

(* C5: when the rate limit ends the process, 2 backoff waits lie between    *)
(* the first and the 4th request.                                           *)
C5_TwoWaitsBeforeFatal ==
    (pc = "Panicked" /\ out = OUT_RATE_PANIC) => (attempts = 4 /\ waits = 2)

(* C5 as amended: when the rate limit ends the process, it is at the 4th    *)
(* request and 3 backoff waits lie between the first and the 4th request.   *)
C5_ThreeWaitsBeforeFatal ==
    (pc = "Panicked" /\ out = OUT_RATE_PANIC) => (attempts = 4 /\ waits = 3)

C5_Witness == pc = "Panicked" /\ out = OUT_RATE_PANIC

(* C6: an outcome of a call that is neither a rate-limit status nor a reply *)
(* is a recoverable error: the process goes on, the user Turn is rolled     *)
(* back and the loop is done.                                               *)
C6_OtherFailuresRecoverable ==
    [][(/\ pc \in {"AwaitingResponse", "ReadingBody"}
        /\ status # TOO_MANY_REQUESTS
        /\ pc' \notin {"ReadingBody", "Backoff"}
        /\ Len(messages') # Len(messages) + 1)
       => (pc' = "Done" /\ out' = OUT_ERROR /\ messages' = snapshot)]_vars

(* C7: the process ends only by the user's /exit or /quit or by the         *)
(* exhausted retries of the rate limit.                                     *)
C7_OnlyRateLimitIsFatal ==
    pc \in {"Panicked", "Failed"} => out = OUT_RATE_PANIC

(* the arguments of a tool call do not decode or lack the required field *)
BadArguments(call) ==
    LET args == from_str(call.function.arguments) IN
    \/ ~args.ok
    \/ call.function.name = "brave_search" /\ "query" \notin DOMAIN args.value
    \/ call.function.name = "open" /\ "id" \notin DOMAIN args.value

(* C8: a tool call whose arguments do not decode or lack the required field *)
(* gets a tool Turn with its id, and the loop goes on with the next tool    *)
(* call or the next model call.                                             *)
C8_ArgumentErrorsAbsorbed ==
    [][(/\ pc = "ExecutingTools"
        /\ CurrentCall.function.name \in {"brave_search", "open"}
        /\ BadArguments(CurrentCall))
       => (/\ pc' \in {"ExecutingTools", "CallingModel"}
           /\ Len(messages') = Len(messages) + 1
           /\ IsToolTurn(Last(messages'))
           /\ Last(messages').tool_call_id = Some(CurrentCall.id))]_vars

(* C9: a failed search appends one tool Turn with the fixed message of the  *)
(* tool and the id of the request; the loop goes on with the next request   *)
(* of the reply or, after the last, with the next model call.               *)
C9_SearchFailureAbsorbed ==
    [][(pc = "AwaitingSearch" /\ out' \in {OUT_SEARCH_FAILED, OUT_READ_FAILED})
       => (/\ messages' =
                Append(messages,
                       Message_tool(IF CurrentCall.function.name = "brave_search"
                                    THEN SEARCH_FAILED ELSE OPEN_FAILED,
                                    CurrentCall.id))
           /\ IF ti < Len(CurrentCalls)
              THEN pc' = "ExecutingTools" /\ ti' = ti + 1
                   /\ response_msg' = response_msg
              ELSE pc' = "CallingModel")]_vars

C9_Witness ==
    /\ pc = "ExecutingTools"
    /\ ti = 2
    /\ Last(messages) = Message_tool(SEARCH_FAILED, Ids[1])

(* C10: the Turn before a tool Turn is an assistant Turn that holds a       *)
(* ToolRequest with the id of the tool Turn.                                *)
C10_ToolTurnRightAfterRequest ==
    \A i \in 1..Len(messages) :
        IsToolTurn(messages[i]) =>
            /\ i > 1
            /\ messages[i - 1].role = "assistant"
            /\ HasToolRequests(messages[i - 1])
            /\ \E k \in 1..Len(Unwrap(messages[i - 1].tool_calls)) :
                  Some(Unwrap(messages[i - 1].tool_calls)[k].id)
                      = messages[i].tool_call_id

(* the place of the last Turn before i that is no tool Turn (0: none) *)
RequestPlace(i) ==
    LET before == {j \in 1..(i - 1) : ~IsToolTurn(messages[j])} IN
    IF before = {} THEN 0 ELSE CHOOSE j \in before : \A k \in before : k <= j

(* C10 as amended: the last Turn before a tool Turn that is no tool Turn    *)
(* is an assistant Turn that holds a ToolRequest with the id of the tool    *)
(* Turn: only tool Turns of the same assistant Turn lie in between.         *)
C10_ToolTurnAfterItsRequest ==
    \A i \in 1..Len(messages) :
        IsToolTurn(messages[i]) =>
            LET p == RequestPlace(i) IN
            /\ p > 0
            /\ messages[p].role = "assistant"
            /\ HasToolRequests(messages[p])
            /\ \E k \in 1..Len(Unwrap(messages[p].tool_calls)) :
                  Some(Unwrap(messages[p].tool_calls)[k].id) = messages[i].tool_call_id

C10_Witness ==
    /\ Len(messages) >= 4
    /\ IsToolTurn(messages[4])
    /\ IsToolTurn(messages[3])
    /\ messages[4].tool_call_id = Some(Ids[2])

StartsWith(s, prefix) ==
    Len(s) >= Len(prefix) /\ SubSeq(s, 1, Len(prefix)) = prefix

NO_RESULTS_LINE == "No results found.\n"

(* C11: every tool Turn of the log has text that is not empty; the Turn a   *)
(* search that succeeded appends begins with the heading, also when the     *)
(* query was empty; an empty result list is rendered as the heading         *)
(* followed by the no-results line.                                         *)
C11_ToolTurnsNonEmpty ==
    /\ [](\A i \in 1..Len(messages) :
             IsToolTurn(messages[i]) =>
                 (IsSome(messages[i].content) /\ Len(Unwrap(messages[i].content)) > 0))
    /\ [][(pc = "AwaitingSearch" /\ out' \in {OUT_REASONING, OUT_ANALYZING})
            => (/\ Len(messages') = Len(messages) + 1
                /\ IsToolTurn(Last(messages'))
                /\ StartsWith(Unwrap(Last(messages').content), HEADING))]_vars
    /\ [](format_results([results |-> Some(<<>>)]) = HEADING \o NO_RESULTS_LINE)

C11_Witness ==
    /\ Len(messages) > 0
    /\ Last(messages) = Message_tool(HEADING \o NO_RESULTS_LINE, Ids[1])

(* C12: the messages of every completion request in flight are the one      *)
(* fixed system Turn followed by the Conversation, in order, and the        *)
(* Conversation holds no system Turn.                                       *)
C12_SystemTurnInjectedNotStored ==
    /\ (IsSome(request) /\ Unwrap(request).kind = "chat") =>
           Unwrap(request).messages = <<Message_system(SYSTEM_PROMPT)>> \o messages
    /\ pc \in {"AwaitingResponse", "ReadingBody"} =>
           (IsSome(request) /\ Unwrap(request).kind = "chat")
    /\ \A i \in 1..Len(messages) : messages[i].role # "system"

(* a request sent again after a backoff, in a turn that ran a tool *)
C12_Witness ==
    /\ pc = "AwaitingResponse"
    /\ attempts = 2
    /\ Len(messages) >= 3
    /\ IsToolTurn(Last(messages))

(* a line typed at a model prompt that is neither a choice nor a way out *)
InvalidChoice(line) == trim(line) \notin {"", "1", "2", "3", "/exit", "/quit"}

(* C13: an empty line at the prompt, and an invalid choice at either model  *)
(* prompt, leave the Conversation as it was and start no model call.        *)
C13_InputErrorsLeaveLog ==
    /\ [][(\E line \in UserLines(profile) : trim(line) = "" /\ HandleLine(line))
            => (/\ messages' = messages
                /\ pc' = "AwaitingUserInput"
                /\ request' = None)]_vars
    /\ [][(\E line \in ModelChoiceLines(profile) :
              /\ InvalidChoice(line)
              /\ SelectModelInteractiveOn(line) \/ ChangeModelInteractiveOn(line))
            => (/\ messages' = messages
                /\ pc' = "AwaitingUserInput"
                /\ request' = None)]_vars

(* the model prompt is open over a Conversation that is not empty, the      *)
(* second model is selected, and an invalid choice can be typed             *)
C13_Witness ==
    /\ pc = "ChangeModel"
    /\ Len(messages) >= 2
    /\ selected_model = 2
    /\ \E line \in ModelChoiceLines(profile) : InvalidChoice(line)
    /\ \E line \in UserLines(profile) : trim(line) = ""

(* C14: after the second /stream command of a pair, whatever commands that  *)
(* are not /stream were given between the two and after them, the stream    *)
(* mode is what it was before the first.                                    *)
C14_TwoTogglesRestoreMode ==
    stream_hist.n = 2 => stream_mode = stream_hist.before

(* two /stream commands with a message answered in between or before *)
C14_Witness ==
    /\ pc = "AwaitingUserInput"
    /\ stream_hist.n = 2
    /\ Len(messages) >= 2
    /\ selected_model = 2

(* the step of the loop of run on a line that is the /clear command *)
ClearStep ==
    \E line \in UserLines(profile) : LineCommand(line).cmd = "Clear" /\ HandleLine(line)

(* C15: a /clear command leaves the Conversation empty and the session at   *)
(* the prompt; given on an empty Conversation it changes nothing, so that   *)
(* a second /clear after a first one changes nothing.                       *)
C15_ClearEmptiesAndIsIdempotent ==
    /\ [][ClearStep =>
            (/\ messages' = <<>>
             /\ pc' = "AwaitingUserInput"
             /\ UNCHANGED <<stream_mode, selected_model, request>>)]_vars
    /\ [][(ClearStep /\ messages = <<>>) =>
            UNCHANGED <<messages, pc, stream_mode, selected_model, request>>]_vars

(* the prompt over a Conversation that holds a tool round, where /clear     *)
(* can be typed                                                             *)
C15_Witness ==
    /\ pc = "AwaitingUserInput"
    /\ Len(messages) >= 4
    /\ \E line \in UserLines(profile) : LineCommand(line).cmd = "Clear"

(* C16: when every call returns and the model ends by a reply without tool  *)
(* requests or by an error, a user turn that has started ends: the loop is  *)
(* done and the session is back at the prompt.  The end of the process by   *)
(* the exhausted retries of the rate limit, the fatal end the specification *)
(* names, is counted as an end of the turn as well.                         *)
C16_TurnEventuallyEnds ==
    (pc = "CallingModel") ~>
        (pc = "AwaitingUserInput" \/ (pc = "Panicked" /\ out = OUT_RATE_PANIC))

(* C17: a model call that fails removes the last Turn when it is the user   *)
(* Turn of this user turn, not answered yet; when an assistant Turn or tool *)
(* Turns were appended in this user turn, the log is left as it is.         *)
C17_RollbackOnlyOfUserTurn ==
    [][(/\ pc \in {"AwaitingResponse", "ReadingBody"}
        /\ pc' = "Done"
        /\ out' = OUT_ERROR)
       => messages' = IF Len(messages) = Len(snapshot) + 1
                      THEN snapshot
                      ELSE messages]_vars

(* C18: a reply that holds one or more ToolRequests takes the loop to the   *)
(* execution of tools, and no other reply does; a reply that holds none,    *)
(* the field absent or an empty list, has its text emitted and ends the     *)
(* loop without another model call.                                         *)
C18_ToolsOnlyForRequests ==
    [][(/\ pc = "ReadingBody"
        /\ Len(messages') = Len(messages) + 1
        /\ Last(messages').role = "assistant")
       => IF HasToolRequests(Last(messages'))
          THEN pc' = "ExecutingTools"
          ELSE /\ pc' = "Done"
               /\ out' = IF IsSome(Last(messages').content)
                         THEN OUT_ANSWER ELSE OUT_NO_ANSWER]_vars

(* the tool calls process_message executes: those of the two known names *)
KnownTool(call) == call.function.name \in {"brave_search", "open"}

(* the ids of the executed ones among the first n tool calls, in order *)
ExecutedIds(calls, n) ==
    LET done == SelectSeq(SubSeq(calls, 1, n), KnownTool) IN
    [j \in 1..Len(done) |-> Some(done[j].id)]

(* the ids of the tool Turns at the end of the log *)
TailIds ==
    LET p == RequestPlace(Len(messages) + 1) IN
    [j \in 1..(Len(messages) - p) |-> messages[p + j].tool_call_id]

(* the place of the ToolRequest with this id in the assistant Turn at p *)
PlaceOfId(p, id) ==
    LET calls == Unwrap(messages[p].tool_calls) IN
    CHOOSE k \in 1..Len(calls) : Some(calls[k].id) = id

(* C19: the tool Turns of one assistant Turn stand in the log in the order  *)
(* of its ToolRequests; and while the k-th ToolRequest is being executed,   *)
(* the tool Turns of the executed ones among the first k-1 are in the log,  *)
(* and no other tool Turn after the assistant Turn.                         *)
C19_ToolTurnsInRequestOrder ==
    /\ \A i, j \in 1..Len(messages) :
          (/\ i < j
           /\ IsToolTurn(messages[i])
           /\ IsToolTurn(messages[j])
           /\ RequestPlace(i) = RequestPlace(j))
          => PlaceOfId(RequestPlace(i), messages[i].tool_call_id)
                 < PlaceOfId(RequestPlace(j), messages[j].tool_call_id)
    /\ pc \in {"ExecutingTools", "AwaitingSearch"} =>
          /\ messages[RequestPlace(Len(messages) + 1)] = Unwrap(response_msg)
          /\ TailIds = ExecutedIds(CurrentCalls, ti - 1)

(* the second ToolRequest is being executed with the tool Turn of the       *)
(* first in the log                                                         *)
C19_Witness ==
    /\ pc = "AwaitingSearch"
    /\ ti = 2
    /\ TailIds = <<Some(Ids[1])>>

(* C20: a reply that is returned is appended to the log as one assistant    *)
(* Turn, its text present or not, before the loop goes on; and when the     *)
(* user turn ends, the replies appended during it are still in the log.     *)
C20_RepliesAppendedAndKept ==
    /\ [][(pc = "ReadingBody" /\ pc' \in {"ExecutingTools", "CallingModel", "Done"}
              /\ out' # OUT_ERROR)
            => (/\ Len(messages') = Len(messages) + 1
                /\ SubSeq(messages', 1, Len(messages)) = messages
                /\ Last(messages').role = "assistant")]_vars
    /\ [][(pc # "Done" /\ pc' = "Done")
            => \A i \in (Len(snapshot) + 1)..Len(messages) :
                  messages[i].role = "assistant"
                      => (i <= Len(messages') /\ messages'[i] = messages[i])]_vars

(* C21: an assistant Turn of the log that holds no ToolRequest has a text,  *)
(* which is empty when the reply had none: a response without a choice and  *)
(* a message without text are both stored with the empty text.              *)
C21_EmptyReplyNormalized ==
    \A i \in 1..Len(messages) :
        (messages[i].role = "assistant" /\ ~HasToolRequests(messages[i]))
            => IsSome(messages[i].content)

(* C22: every completion request in flight asks for a buffered answer and   *)
(* carries the two tool declarations, brave_search and open, whatever the   *)
(* stream mode is; no request asks for streaming together with tools.       *)
C22_BufferedWithBothTools ==
    (IsSome(request) /\ Unwrap(request).kind = "chat") =>
        /\ Unwrap(request).stream = FALSE
        /\ Unwrap(request).tools = Some(<<get_brave_search_tool, get_open_tool>>)
        /\ ~(Unwrap(request).stream /\ IsSome(Unwrap(request).tools))

(* a request in flight while the stream mode is on *)
C22_Witness ==
    /\ pc = "AwaitingResponse"
    /\ stream_mode = TRUE
    /\ IsSome(request)

(* a request is outstanding or a backoff wait is running *)
Pending == IsSome(request) \/ pc = "Backoff"

(* C23: one request at most is outstanding: a request is issued only when   *)
(* none is outstanding; while a request is outstanding or a backoff wait    *)
(* runs the session is not at a prompt, no line is taken from the user, and *)
(* the Conversation changes only by the step that ends the request.         *)
C23_OneRequestAtATime ==
    /\ [](Pending => pc \in {"AwaitingResponse", "ReadingBody", "Backoff",
                              "AwaitingSearch"})
    /\ [](pc \in {"AwaitingResponse", "ReadingBody", "AwaitingSearch"}
              => IsSome(request))
    /\ [][(IsSome(request') /\ pc' \in {"AwaitingResponse", "AwaitingSearch"}
              /\ pc' # pc)
            => request = None]_vars
    /\ [][(Pending /\ Pending') => messages' = messages]_vars
    /\ [][Pending =>
            ~(\/ \E line \in UserLines(profile) : HandleLine(line)
              \/ \E line \in ModelChoiceLines(profile) :
                    SelectModelInteractiveOn(line) \/ ChangeModelInteractiveOn(line))
         ]_vars

(* a backoff wait of the call that follows a tool round *)
C23_Witness ==
    /\ pc = "Backoff"
    /\ request = None
    /\ IsToolTurn(Last(messages))

(* the text of a sequence of texts, joined from the right *)
RECURSIVE Join(_)
Join(texts) ==
    IF Len(texts) = 0 THEN ""
    ELSE Join(SubSeq(texts, 1, Len(texts) - 1)) \o texts[Len(texts)]

(* the entry of the result r shown at the number i *)
EntryOf(i, r) ==
    ToString(i) \o ". **" \o (IF IsSome(r.title) THEN Unwrap(r.title) ELSE "No Title")
    \o "**\n   - Snippet: " \o (IF IsSome(r.description) THEN Unwrap(r.description) ELSE "")
    \o "\n   - URL: " \o (IF IsSome(r.url) THEN Unwrap(r.url) ELSE "") \o "\n\n"

(* the block of a list of results: the heading, then the entries of the     *)
(* first 5 at most, numbered from 1, in the order of the list               *)
BlockOf(list) ==
    LET shown == IF Len(list) < 5 THEN Len(list) ELSE 5 IN
    HEADING \o Join([i \in 1..shown |-> EntryOf(i, list[i])])

(* C24: the tool Turn of a search answered with a list of results that is   *)
(* not empty holds the heading followed by one entry for each of the first  *)
(* 5 results at most, numbered 1, 2, ... in the order of the provider, each *)
(* with its title, snippet and URL.                                         *)
C24_BlockListsFirstFive ==
    [][(pc = "AwaitingSearch" /\ IsSome(search_json')
            /\ IsSome(Unwrap(search_json').results)
            /\ Len(Unwrap(Unwrap(search_json').results)) > 0)
       => Last(messages') =
              Message_tool(BlockOf(Unwrap(Unwrap(search_json').results)),
                           CurrentCall.id)]_vars

(* a search answered with more than 5 results of the two kinds *)
C24_Witness ==
    /\ IsSome(search_json)
    /\ IsSome(Unwrap(search_json).results)
    /\ Len(Unwrap(Unwrap(search_json).results)) = 6
    /\ Unwrap(Unwrap(search_json).results)[1] = SearchItemFull
    /\ Unwrap(Unwrap(search_json).results)[6] = SearchItem
    /\ IsToolTurn(Last(messages))

(* the string the model gives to open: the id, or the url when no id is     *)
(* given                                                                    *)
GivenString(call) ==
    LET v == from_str(call.function.arguments).value IN
    IF "id" \in DOMAIN v THEN v["id"].str ELSE v["url"].str

GivesString(call) ==
    LET a == from_str(call.function.arguments) IN
    /\ a.ok
    /\ \/ "id" \in DOMAIN a.value /\ a.value["id"].kind = "string"
       \/ "id" \notin DOMAIN a.value /\ "url" \in DOMAIN a.value
            /\ a.value["url"].kind = "string"

(* C25: an open call sends one search request, with the string the model    *)
(* gave as the query; the answer is appended as brave_search appends it,    *)
(* the block of the results, and a failure as one fixed message; no request *)
(* other than a completion or a search is ever sent.                        *)
C25_OpenIsASearch ==
    /\ [][(pc = "ExecutingTools" /\ CurrentCall.function.name = "open"
              /\ GivesString(CurrentCall))
            => (/\ pc' = "AwaitingSearch"
                /\ request' = Some(SearchRequest(GivenString(CurrentCall)))
                /\ messages' = messages)]_vars
    /\ [][(pc = "AwaitingSearch" /\ CurrentCall.function.name = "open")
            => (/\ request' = None
                /\ messages' =
                     Append(messages,
                            IF IsSome(search_json')
                            THEN Message_tool(format_results(Unwrap(search_json')),
                                              CurrentCall.id)
                            ELSE Message_tool(OPEN_FAILED, CurrentCall.id)))]_vars
    /\ [](IsSome(request) => Unwrap(request).kind \in {"chat", "search"})

(* the search of an open call that gave a url and no id is under way *)
C25_Witness ==
    /\ pc = "AwaitingSearch"
    /\ CurrentCall.function.name = "open"
    /\ CurrentCall.function.arguments = ARGS_URL
    /\ Unwrap(request).q = "example.com/page"

(* the step of run on a line forwards it: the trimmed line is appended as   *)
(* a user Turn and the loop stands before its model call                    *)
Forwarded(line) ==
    /\ messages' = Append(messages, Message_user(trim(line)))
    /\ pc' = "CallingModel"

(* C26: a line that is not empty and is none of /exit, /quit, /stream,      *)
(* /clear, /model, /help is appended as a user Turn and a model call is     *)
(* issued: at the prompt, run has no other step to take on such a line.     *)
C26_OtherLinesForwarded ==
    \A line \in UserLines(profile) :
        (/\ pc = "AwaitingUserInput"
         /\ trim(line) # ""
         /\ trim(line) \notin {"/exit", "/quit", "/stream", "/clear", "/model",
                               "/help"})
        => /\ ~ENABLED (HandleLine(line) /\ ~Forwarded(line))
           /\ Len(messages) + 2 <= MaxLog
                  => ENABLED (HandleLine(line) /\ Forwarded(line))

(* C26 as amended: a line that is not empty and is none of /exit, /quit,    *)
(* /stream, /clear, /model, /help, / and ? is appended as a user Turn and a *)
(* model call is issued: at the prompt, run has no other step to take on    *)
(* such a line.                                                             *)
C26_OtherLinesButHelpForwarded ==
    \A line \in UserLines(profile) :
        (/\ pc = "AwaitingUserInput"
         /\ trim(line) # ""
         /\ trim(line) \notin {"/exit", "/quit", "/stream", "/clear", "/model",
                               "/help", "/", "?"})
        => /\ ~ENABLED (HandleLine(line) /\ ~Forwarded(line))
           /\ Len(messages) + 2 <= MaxLog
                  => ENABLED (HandleLine(line) /\ Forwarded(line))

(* a second message forwarded, in the session that knows every command *)
C26_Witness ==
    /\ pc = "CallingModel"
    /\ Len(messages) >= 3
    /\ Last(messages) = Message_user("hello")
    /\ "?" \in UserLines(profile)

(* C27: at the prompt the Conversation is empty or ends with an assistant   *)
(* Turn that holds no ToolRequest.                                          *)
C27_LogSettledAtPrompt ==
    pc = "AwaitingUserInput" =>
        \/ messages = <<>>
        \/ Last(messages).role = "assistant" /\ ~HasToolRequests(Last(messages))

(* C28: the retry counter belongs to one call: it is 0 when a call starts   *)
(* and counts the rate-limit responses of this call alone, so that a call   *)
(* is ended by the rate limit at its own 4th request only, whatever rate    *)
(* limiting earlier calls have met; and a reply that arrives after retries  *)
(* is handed on as any reply is, with nothing of the retries left behind.   *)
C28_RetryBudgetPerCall ==
    /\ [][pc = "CallingModel" => (retries' = 0 /\ attempts' = 1 /\ waits' = 0)]_vars
    /\ [](pc \in {"AwaitingResponse", "ReadingBody"} =>
             (retries = waits /\ attempts = retries + 1))
    /\ [][(pc = "AwaitingResponse" /\ pc' = "ReadingBody"
              /\ status' = TOO_MANY_REQUESTS)
            => attempts = MAX_RETRIES + 1]_vars
    /\ [][(pc = "ReadingBody" /\ status # TOO_MANY_REQUESTS
              /\ pc' \in {"ExecutingTools", "CallingModel", "Done"}
              /\ out' # OUT_ERROR)
            => (/\ Len(messages') = Len(messages) + 1
                /\ Last(messages').role = "assistant"
                /\ retries' = 0 /\ attempts' = 0 /\ waits' = 0
                /\ request' = None)]_vars

(* a call that follows a rate-limited one is answered at its 4th request,   *)
(* after 3 retries of its own                                               *)
C28_Witness ==
    /\ pc = "ReadingBody"
    /\ status = 200
    /\ attempts = MAX_RETRIES + 1
    /\ limited_before

(* the model a choice typed at a model prompt stands for *)
ChosenModel(input) ==
    IF input = "2" THEN MODELS[2] ELSE IF input = "3" THEN MODELS[3] ELSE MODELS[1]

(* C29: the active model is one of the three of the list, the first one at  *)
(* the start; a choice of 1, 2 or 3 at a model prompt makes that entry the  *)
(* active model, the empty and any other choice the first, whatever it was; *)
(* and while the process runs the active model changes at the model prompts *)
(* only.                                                                    *)
C29_ActiveModelOfTheList ==
    /\ [](MODELS[selected_model] \in {MODELS[i] : i \in 1..3})
    /\ [](pc = "SelectModel" => MODELS[selected_model] = MODELS[1])
    /\ [][\A line \in ModelChoiceLines(profile) :
             (/\ trim(line) \notin {"/exit", "/quit"}
              /\ SelectModelInteractiveOn(line) \/ ChangeModelInteractiveOn(line))
             => MODELS[selected_model'] = ChosenModel(trim(line))]_vars
    /\ [][(selected_model' # selected_model /\ ~Terminated')
            => pc \in {"SelectModel", "ChangeModel"}]_vars

(* the prompt of /model is open with the third model active, and an invalid *)
(* choice can be typed                                                      *)
C29_Witness ==
    /\ pc = "ChangeModel"
    /\ selected_model = 3
    /\ \E line \in ModelChoiceLines(profile) : InvalidChoice(line)

(* the step of run on a line that parses to the command cmd *)
CommandStep(cmd) ==
    \E line \in UserLines(profile) : LineCommand(line).cmd = cmd /\ HandleLine(line)

(* C30: /stream, /model and /help leave the Conversation as it is, /clear   *)
(* leaves the active model and the stream mode, /stream leaves the active   *)
(* model; a user message, through the whole of its user turn, changes       *)
(* neither the active model nor the stream mode.                            *)
C30_CommandsDisjoint ==
    /\ [][(CommandStep("Stream") \/ CommandStep("Model") \/ CommandStep("Help"))
            => messages' = messages]_vars
    /\ [][(pc = "ChangeModel" /\ ~Terminated') => messages' = messages]_vars
    /\ [][CommandStep("Clear") => UNCHANGED <<selected_model, stream_mode>>]_vars
    /\ [][CommandStep("Stream") => selected_model' = selected_model]_vars
    /\ [][((CommandStep("Message")
              \/ pc \in {"CallingModel", "AwaitingResponse", "Backoff", "ReadingBody",
                         "ExecutingTools", "AwaitingSearch", "Done"})
             /\ ~Terminated')
            => UNCHANGED <<selected_model, stream_mode>>]_vars

(* the stream mode is on and the second model active at the end of a user   *)
(* turn that ran a tool                                                     *)
C30_Witness ==
    /\ pc = "Done"
    /\ stream_mode = TRUE
    /\ selected_model = 2
    /\ Len(messages) >= 4

====
